---- MODULE Spec2Model ----
(***************************************************************************)
(* ai-agent-forge: the graph generator (agents_generation), the runs of    *)
(* the graphs it builds, the meta-agent ("core agent") graph and the       *)
(* service that streams its runs.                                          *)
(*                                                                         *)
(* The graph engine is LangGraph's StateGraph/Pregel, which the sources    *)
(* call through add_node, add_edge, add_conditional_edges, compile,        *)
(* stream/astream and get_state; its behaviour is modelled at those call   *)
(* sites.  Node computations are external calls: their results are drawn   *)
(* nondeterministically from small sets.                                   *)
(***************************************************************************)
EXTENDS Naturals, Sequences, FiniteSets, TLC

VARIABLES
    \* ---- generator and runs of a generated graph ----
    config,       \* the GraphSpec handed to generate_agent_from_config
    compiled,     \* result of generate_agent_from_config (NoGraph before the call)
    gStatus,      \* "idle" | "running" | "done" | "aborted"
    gFrontier,    \* node ids triggered for the next superstep
    gStep,        \* supersteps executed in the current run
    gMessages,    \* the run's message history (author of each message)
    gExec,        \* node id -> number of executions in the current run
    gSeen,        \* node id -> the message history its last execution was given
    gEvents,      \* chunks yielded by agent.stream(..., stream_mode="updates")
    gError,       \* error that ended the run, "" if none
    \* ---- core agent, its thread, and the service ----
    client,       \* who drives the core agent: "service" | "cli"
    checkpoint,   \* MemorySaver: the state committed for the thread
    nextId,       \* next message id the reducer hands out (ids are unique)
    cliMessages,  \* the CLI chat loop's accumulated "messages" list
    cStatus,      \* "idle" | "running" | "finishing" | "done" | "aborted"
    cNext,        \* node triggered for the next superstep, "" if none
    cStep,        \* supersteps executed in the current run
    cEvents,      \* SSE events the current stream has yielded
    cError,       \* error that ended the current run, "" if none
    cRouted,      \* last value route_to_step returned in the current run, "" if none
    cPlanned,     \* the NextStep values step_planner chose in the current run
    log,          \* ghost: inputs and node messages of the thread, in order of commit
    runs,         \* runs started on the thread
    agents,       \* AgentService.agents
    agent_states, \* AgentService.agent_states
    files,        \* the files in configs/, by the parts of their names
    lastCall,     \* result of the last call that addressed a generated agent
    req,          \* overlapping stream requests on the thread: request -> its run
    \* ---- single operations studied on their own ----
    sse,          \* one _stream_agent_response stream and the payloads of its chunks
    llm,          \* one execution of an llm_node
    lit,          \* one execution of a core node on a state of the declared schema
    gen           \* overlapping agent-generation calls and the insertion order of self.agents

gvars == <<config, compiled, gStatus, gFrontier, gStep, gMessages, gExec, gSeen, gEvents, gError>>

cvars == <<client, checkpoint, nextId, cliMessages, cStatus, cNext, cStep, cEvents, cError,
           cRouted, cPlanned, log, runs, agents, agent_states, files, lastCall>>

xvars == <<sse, llm, lit, gen>>

vars == <<gvars, cvars, req, xvars>>

(***************************************************************************)
(* GraphSpec inputs                                                        *)
(***************************************************************************)
\* Node ids a GraphSpec may declare, in declaration order.
NodeSeq == <<"n1", "n2", "n3">>

NodeIds == {NodeSeq[i] : i \in 1..Len(NodeSeq)}

\* The registry: NodeType.LLM and NodeType.WEB_SEARCH.
NodeType == {"llm", "web_search"}

\* Type tags a GraphSpec may carry (NodeConfig.type is a free string).
TypeTags == NodeType \cup {"custom"}

\* Largest number of edges of an enumerated GraphSpec.
MaxEdges == 5

\* LangGraph's sentinels, and the literal strings the GraphSpec JSON uses.
START == "__start__"
END == "__end__"

EdgeSources == {"START"} \cup NodeIds
EdgeTargets == NodeIds \cup {"END"}

\* NodeConfig: id and type (objective, model_name, temperature only feed the
\* external call).
NodeConfigs(k) == {[i \in 1..k |-> [id |-> NodeSeq[i], type |-> ty[i]]] : ty \in [1..k -> TypeTags]}

\* Edges an enumerated GraphSpec may hold: between two distinct ids, from
\* "START" to an id, from an id to "END".  An id that the GraphSpec does not
\* declare is an edge to or from a nonexistent node.
EdgePairs == {e \in EdgeSources \X EdgeTargets : e[1] # e[2] /\ ~(e[1] = "START" /\ e[2] = "END")}

\* EdgeConfig lists; the order of the list has no effect on the graph built
\* (StateGraph.edges is a set), so a list is represented by its set of pairs.
EdgeConfigs == {E \in SUBSET EdgePairs : Cardinality(E) <= MaxEdges}

\* AgentConfig
AgentConfig == {[nodes |-> ns, edges |-> es] : ns \in UNION {NodeConfigs(k) : k \in 1..Len(NodeSeq)}, es \in EdgeConfigs}

DeclaredIds(cfg) == {cfg.nodes[i].id : i \in 1..Len(cfg.nodes)}

(***************************************************************************)
(* generate_agent_from_config                                              *)
(***************************************************************************)
NoGraph == [ok |-> FALSE, error |-> "not_built", nodes |-> {}, edges |-> {}]

Rejected(kind) == [ok |-> FALSE, error |-> kind, nodes |-> {}, edges |-> {}]

\* create_node with a fallback to the llm node for an unrecognized type.
create_node_FallbackLlm(node_type) == "node_function"

\* create_node: the node function for a registered type, ValueError otherwise.
create_node(node_type) == IF node_type \in NodeType THEN "node_function" ELSE "ValueError"

\* The loop "for node_config in config.nodes": create_node, then
\* workflow.add_node (which refuses an id already present).
RECURSIVE AddNodes(_, _, _)
AddNodes(nodes, i, added) ==
    IF i > Len(nodes) THEN [ok |-> TRUE, error |-> "", nodes |-> added]
    ELSE IF create_node(nodes[i].type) = "ValueError"
         THEN [ok |-> FALSE, error |-> "unknown_node_type", nodes |-> added]
    ELSE IF nodes[i].id \in added
         THEN [ok |-> FALSE, error |-> "duplicate_node", nodes |-> added]
    ELSE AddNodes(nodes, i + 1, added \cup {nodes[i].id})

\* "if source == 'START': source = START; if target == 'END': target = END"
MapEdge(e) ==
    <<IF e[1] = "START" THEN START ELSE e[1], IF e[2] = "END" THEN END ELSE e[2]>>

\* The edge loop with an edge to END added for every target that has no
\* outgoing edge of its own.
AddEdges_AutoEnd(edges) ==
    {MapEdge(e) : e \in edges}
        \cup {<<e[2], END>> : e \in {d \in edges : d[2] # "END" /\ ~ \E o \in edges : o[1] = d[2]}}

\* The loop "for edge_config in config.edges": workflow.add_edge(source, target).
AddEdges(edges) == {MapEdge(e) : e \in edges}

\* Validation that does not look at the targets of the edges.
ValidateGraph_NoTargetCheck(nodes, edges) ==
    IF \E e \in edges : e[1] \notin nodes \cup {START} THEN "unknown_edge_source"
    ELSE IF ~ \E e \in edges : e[1] = START THEN "no_entrypoint"
    ELSE ""

\* workflow.compile(): StateGraph.validate() refuses an edge that starts or
\* ends at an unknown node and a graph without an edge from START.
ValidateGraph(nodes, edges) ==
    IF \E e \in edges : e[1] \notin nodes \cup {START} THEN "unknown_edge_source"
    ELSE IF ~ \E e \in edges : e[1] = START THEN "no_entrypoint"
    ELSE IF \E e \in edges : e[2] \notin nodes \cup {END} THEN "unknown_edge_target"
    ELSE ""

generate_agent_from_config(cfg) ==
    LET added == AddNodes(cfg.nodes, 1, {})
        edges == AddEdges(cfg.edges)
    IN  IF ~added.ok THEN Rejected(added.error)
        ELSE IF ValidateGraph(added.nodes, edges) # "" THEN Rejected(ValidateGraph(added.nodes, edges))
        ELSE [ok |-> TRUE, error |-> "", nodes |-> added.nodes, edges |-> edges]

(***************************************************************************)
(* A run of a generated graph (Pregel supersteps)                          *)
(***************************************************************************)
\* Superstep cap of a run: LangGraph's recursion_limit, 25 unless configured.
RecursionLimit == 25

\* Targets of the edges leaving the given nodes; END starts no node.
Successors(graph, from) == {e[2] : e \in {d \in graph.edges : d[1] \in from}} \ {END}

\* Nodes of a frontier in the engine's task order (order of declaration).
RECURSIVE InOrder(_, _)
InOrder(frontier, i) ==
    IF i > Len(NodeSeq) THEN <<>>
    ELSE (IF NodeSeq[i] \in frontier THEN <<NodeSeq[i]>> ELSE <<>>) \o InOrder(frontier, i + 1)

\* llm_node / web_search_node: the delta appends exactly one AIMessage.
NodeDelta(n) == <<n>>

\* Deltas of a frontier merged by the messages reducer (append), in task order.
RECURSIVE MergeDeltas(_)
MergeDeltas(order) ==
    IF order = <<>> THEN <<>> ELSE NodeDelta(Head(order)) \o MergeDeltas(Tail(order))

\* The orders in which the nodes of a frontier may execute (the engine runs
\* the tasks of a superstep concurrently).
Orders(frontier) ==
    {o \in [1..Cardinality(frontier) -> frontier] : \A i, j \in DOMAIN o : i # j => o[i] # o[j]}

\* A frontier executed one node after the other on the shared state, each
\* node reading what the nodes before it appended.
NodeInput_Sequential(snapshot, order, i) == snapshot \o MergeDeltas(SubSeq(order, 1, i - 1))

\* state['messages'] as the i-th node to execute reads it: every task of a
\* superstep is given the channel values of the superstep's start, the
\* writes are applied when all tasks have ended, and llm_node and
\* web_search_node build new lists and leave the one they are given alone.
NodeInput(snapshot, order, i) == snapshot

(***************************************************************************)
(* The core agent: state, reducer, nodes and router                        *)
(***************************************************************************)
\* NextStep: the values the planner's structured output may take.
NextStep == {"update_blueprint", "ask_followup", "generate_agent", "evaluate_blueprint"}

\* Nodes of the core graph (builder.add_node).
CoreNodes == {"step_planner", "update_blueprint", "ask_followup", "generate_agent"}

\* The destinations listed in add_conditional_edges("step_planner", route_to_step, {...}).
RouteTargets == {"update_blueprint", "ask_followup", "generate_agent"}

\* Texts the blueprint LLM call may return.
BlueprintTexts == {"bp1", "bp2"}

\* Runs started on one thread.
MaxRuns == 2

\* Ids uuid4 may hand to generated agents.
AgentIds == {"a1", "a2"}

\* str(uuid.uuid4()): an id that is not in use.  Which of the unused ids it
\* is makes no difference to any operation, so one of them stands for all.
uuid4(used) == CHOOSE a \in AgentIds \ used : TRUE

\* The same, among the ids of a given pool.
uuid4_Among(pool, used) == CHOOSE a \in pool \ used : TRUE

\* list(keys)[-1]
LastKey(keys) == keys[Len(keys)]

\* The GraphSpec START -> n1 -> ... -> nk -> END of web_search nodes followed
\* by one llm node.
Chain(k) ==
    [nodes |-> [i \in 1..k |-> [id |-> NodeSeq[i], type |-> IF i < k THEN "web_search" ELSE "llm"]],
     edges |-> {<<"START", NodeSeq[1]>>, <<NodeSeq[k], "END">>}
                  \cup {<<NodeSeq[i], NodeSeq[i + 1]>> : i \in 1..(k - 1)}]

\* A GraphSpec that fits the AgentConfig schema (type is a free string) but
\* names a type the registry does not have.
UnregisteredTypeSpec ==
    [nodes |-> <<[id |-> NodeSeq[1], type |-> "custom"]>>,
     edges |-> {<<"START", NodeSeq[1]>>, <<NodeSeq[1], "END">>}]

\* An AgentConfig with its agent_name (a string, here its characters).
Named(cfg, name) == [nodes |-> cfg.nodes, edges |-> cfg.edges, agent_name |-> name]

\* AgentConfig objects the structured output of generate_agent may be: the
\* output is bound by the schema only, nothing validates it before it is
\* stored.
CoreConfigs ==
    {Named(Chain(1), <<"a", " ", "b">>), Named(Chain(2), <<"c">>), Named(UnregisteredTypeSpec, <<"d">>)}

\* agent_config before generate_agent has run (default=None).
NoConfig == [nodes |-> <<>>, edges |-> {}]

\* AgentCreatorState with its defaults, no message yet.  state.py spells the
\* blueprint field agent_bleuprint; the nodes and the service read and write
\* agent_blueprint, which is the name (and the one field) used here.
EmptyState == [messages |-> <<>>, agent_blueprint |-> "", agent_config |-> NoConfig, planned_step |-> ""]

\* A message without an id (id None is 0) as the code constructs it.
HumanMessage == [id |-> 0, author |-> "user"]
AIMessage(node) == [id |-> 0, author |-> node]

\* Number of messages of a list that have no id yet.
RECURSIVE Unidentified(_)
Unidentified(msgs) ==
    IF msgs = <<>> THEN 0 ELSE (IF Head(msgs).id = 0 THEN 1 ELSE 0) + Unidentified(Tail(msgs))

\* add_messages gives every message that has no id a fresh one, in place.
RECURSIVE AssignIds(_, _)
AssignIds(msgs, next) ==
    IF msgs = <<>> THEN <<>>
    ELSE IF Head(msgs).id = 0
         THEN <<[Head(msgs) EXCEPT !.id = next]>> \o AssignIds(Tail(msgs), next + 1)
         ELSE <<Head(msgs)>> \o AssignIds(Tail(msgs), next)

\* A reducer that appends the update without looking at the ids.
add_messages_Concat(left, right) == left \o right

\* A messages channel without a reducer: the update replaces the value.
add_messages_Overwrite(left, right) == right

\* add_messages(left, right): a message of right whose id is already in left
\* replaces that message, any other message is appended.
RECURSIVE add_messages(_, _)
add_messages(left, right) ==
    IF right = <<>> THEN left
    ELSE LET m == Head(right)
             idx == {i \in 1..Len(left) : left[i].id = m.id}
         IN  add_messages(IF idx # {} THEN [left EXCEPT ![CHOOSE i \in idx : TRUE] = m]
                                     ELSE Append(left, m),
                          Tail(right))

\* A merge that loses the update to the messages channel.
Reduce_KeepsLeft(left, right, next) == left

\* The reducer applied to a list as the caller built it.
Reduce(left, right, next) == add_messages(left, AssignIds(right, next))

\* route_to_step: the planned step, verbatim.
route_to_step(state) == state.planned_step

\* The cap is checked before each superstep.
WithinLimit_OneMore(step) == step <= RecursionLimit

WithinLimit(step) == step < RecursionLimit

\* Requests that may be in flight on the thread at the same time.
Requests == {1, 2}

\* Supersteps explored per overlapping request (below the recursion limit).
MaxConcSteps == 3

\* A request that has not arrived yet.
NoRun == [status |-> "idle", next |-> "", step |-> 0, state |-> EmptyState, events |-> <<>>]

\* agent_name.replace(' ', '_')
Sanitize(name) == [i \in 1..Len(name) |-> IF name[i] = " " THEN "_" ELSE name[i]]

\* _save_config_to_file(config, agent_id): the file is named
\* "{agent_id}_{name}.json" when an agent_id is given and
\* "{name}_{timestamp}.json" otherwise (stamp: the second of the clock, 0 in
\* a name that holds none); a file of that name is overwritten.
save_config_to_file(dir, cfg, agent_id, stamp) ==
    dir \cup {[agent_id |-> agent_id, name |-> Sanitize(cfg.agent_name),
               stamp |-> IF agent_id # "" THEN 0 ELSE stamp]}

\* What AgentService holds before any request.
ServiceInit ==
    /\ checkpoint = EmptyState
    /\ nextId = 1
    /\ cliMessages = <<>>
    /\ cStatus = "idle"
    /\ cNext = ""
    /\ cStep = 0
    /\ cEvents = <<>>
    /\ cError = ""
    /\ cRouted = ""
    /\ cPlanned = {}
    /\ log = <<>>
    /\ runs = 0
    /\ agents = [a \in {} |-> NoGraph]
    /\ agent_states = [a \in {} |-> <<>>]
    /\ files = {}
    /\ lastCall = [op |-> "", agent |-> "", events |-> <<>>, error |-> "", http |-> 0]
    /\ req = [r \in Requests |-> NoRun]

\* A variable of an operation that the specification at hand does not exercise.
Unused == [status |-> "unused"]

\* None of the single operations is exercised.
SingleOpsUnused == sse = Unused /\ llm = Unused /\ lit = Unused /\ gen = Unused

InitGen ==
    /\ SingleOpsUnused
    /\ config \in AgentConfig
    /\ compiled = NoGraph
    /\ gStatus = "idle"
    /\ gFrontier = {}
    /\ gStep = 0
    /\ gMessages = <<>>
    /\ gExec = [n \in NodeIds |-> 0]
    /\ gSeen = [n \in NodeIds |-> <<>>]
    /\ gEvents = <<>>
    /\ gError = ""
    /\ client = "service"
    /\ ServiceInit

\* generate_agent_from_config(config): builds the graph or raises.
CompileConfig ==
    /\ compiled = NoGraph
    /\ compiled' = generate_agent_from_config(config)
    /\ UNCHANGED <<config, gStatus, gFrontier, gStep, gMessages, gExec, gSeen, gEvents, gError>>
    /\ UNCHANGED <<cvars, req, xvars>>

\* agent.stream({"messages": [HumanMessage]}, stream_mode="updates") on the
\* compiled graph: the input is written and the successors of START are
\* triggered.
StartRun ==
    /\ compiled.ok
    /\ gStatus = "idle"
    /\ gMessages = <<>>
    /\ gMessages' = <<"user">>
    /\ gFrontier' = Successors(compiled, {START})
    /\ gStatus' = IF Successors(compiled, {START}) = {} THEN "done" ELSE "running"
    /\ UNCHANGED <<config, compiled, gStep, gExec, gSeen, gEvents, gError>>
    /\ UNCHANGED <<cvars, req, xvars>>

\* One superstep: every triggered node runs on the snapshot, the deltas are
\* merged, one chunk per node is streamed, and the targets of the edges
\* leaving the nodes that ran are triggered.
Superstep ==
    /\ gStatus = "running"
    /\ gFrontier # {}
    /\ gStep < RecursionLimit
    /\ \E order \in Orders(gFrontier) :
         gSeen' = [n \in NodeIds |->
                     IF n \in gFrontier
                     THEN NodeInput(gMessages, order, CHOOSE i \in DOMAIN order : order[i] = n)
                     ELSE gSeen[n]]
    /\ gMessages' = gMessages \o MergeDeltas(InOrder(gFrontier, 1))
    /\ gExec' = [n \in NodeIds |-> IF n \in gFrontier THEN gExec[n] + 1 ELSE gExec[n]]
    /\ gEvents' = gEvents \o InOrder(gFrontier, 1)
    /\ gStep' = gStep + 1
    /\ gFrontier' = Successors(compiled, gFrontier)
    /\ gStatus' = IF Successors(compiled, gFrontier) = {} THEN "done" ELSE "running"
    /\ UNCHANGED <<config, compiled, gError>>
    /\ UNCHANGED <<cvars, req, xvars>>

\* The superstep cap is reached with nodes still triggered: GraphRecursionError.
RecursionAbort ==
    /\ gStatus = "running"
    /\ gFrontier # {}
    /\ gStep = RecursionLimit
    /\ gStatus' = "aborted"
    /\ gError' = "GraphRecursionError"
    /\ UNCHANGED <<config, compiled, gFrontier, gStep, gMessages, gExec, gSeen, gEvents>>
    /\ UNCHANGED <<cvars, req, xvars>>

NextGen == CompileConfig \/ StartRun \/ Superstep \/ RecursionAbort

SpecGen == InitGen /\ [][NextGen]_vars

(***************************************************************************)
(* Runs of the core agent on its thread                                    *)
(***************************************************************************)
\* No generated graph is being built or run.
GenIdle ==
    /\ config = Chain(1)
    /\ compiled = NoGraph
    /\ gStatus = "idle"
    /\ gFrontier = {}
    /\ gStep = 0
    /\ gMessages = <<>>
    /\ gExec = [n \in NodeIds |-> 0]
    /\ gSeen = [n \in NodeIds |-> <<>>]
    /\ gEvents = <<>>
    /\ gError = ""

InitCore ==
    /\ SingleOpsUnused
    /\ GenIdle
    /\ client \in {"service", "cli"}
    /\ ServiceInit

\* A stream that yields no "complete" event (no on_complete callback).
Emit_NoComplete(events, kind) ==
    IF kind # "complete" /\ (client = "service" \/ kind \in CoreNodes) THEN Append(events, kind) ELSE events

\* The event a stream yields; the CLI prints the chunks and yields no
\* "state", "complete" or "error" event.
Emit(events, kind) ==
    IF client = "service" \/ kind \in CoreNodes THEN Append(events, kind) ELSE events

\* Status after the superstep that triggered no further node: the service
\* still has to run on_complete.
Finished == IF client = "service" THEN "finishing" ELSE "done"

\* stream_message_to_core / the CLI chat loop: agent.astream({"messages": ...},
\* config, stream_mode="updates").  The service sends the new HumanMessage,
\* the CLI its whole accumulated list; the reducer merges the input into the
\* checkpointed history and START triggers step_planner.
StreamMessageToCore ==
    /\ cStatus \in {"idle", "done", "aborted"}
    /\ runs < MaxRuns
    /\ LET input == IF client = "cli" THEN Append(cliMessages, HumanMessage) ELSE <<HumanMessage>>
       IN  /\ checkpoint' = [checkpoint EXCEPT !.messages = Reduce(@, input, nextId)]
           /\ cliMessages' = IF client = "cli" THEN AssignIds(input, nextId) ELSE cliMessages
           /\ nextId' = nextId + Unidentified(input)
    /\ log' = Append(log, "user")
    /\ runs' = runs + 1
    /\ cStatus' = "running"
    /\ cNext' = "step_planner"
    /\ cStep' = 0
    /\ cEvents' = Emit(<<>>, "state")
    /\ cError' = ""
    /\ cRouted' = ""
    /\ cPlanned' = {}
    /\ UNCHANGED <<client, agents, agent_states, files, lastCall>>
    /\ UNCHANGED <<gvars, req, xvars>>

\* The superstep of step_planner and of the conditional edge that follows it.
\* The planner's structured output is any NextStep; the delta stores it as
\* planned_step and appends "Next step: ...".  route_to_step returns it.  A
\* value that names no node of the graph is either dropped by the engine
\* (the delta is committed and the run ends with nothing triggered) or
\* refused with an error (the superstep is not committed), depending on the
\* engine's version.
StepPlanner ==
    /\ cStatus = "running"
    /\ cNext = "step_planner"
    /\ WithinLimit(cStep)
    /\ \E step \in NextStep, refused \in BOOLEAN :
         LET state == [checkpoint EXCEPT !.planned_step = step,
                                         !.messages = Reduce(@, <<AIMessage("step_planner")>>, nextId)]
             dest == route_to_step(state)
         IN  /\ cRouted' = dest
             /\ cPlanned' = cPlanned \cup {step}
             /\ IF dest \in CoreNodes \/ ~refused
                THEN /\ checkpoint' = state
                     /\ nextId' = nextId + 1
                     /\ log' = Append(log, "step_planner")
                     /\ cStep' = cStep + 1
                     /\ cEvents' = Emit(cEvents, "step_planner")
                     /\ cNext' = IF dest \in CoreNodes THEN dest ELSE ""
                     /\ cStatus' = IF dest \in CoreNodes THEN "running" ELSE Finished
                     /\ cError' = cError
                ELSE /\ cStatus' = "aborted"
                     /\ cError' = "RoutingError"
                     /\ cEvents' = Emit(cEvents, "error")
                     /\ UNCHANGED <<checkpoint, nextId, log, cStep, cNext>>
    /\ UNCHANGED <<client, cliMessages, runs, agents, agent_states, files, lastCall>>
    /\ UNCHANGED <<gvars, req, xvars>>

\* update_blueprint: stores the new blueprint text, appends "Updated
\* blueprint: ...", and its edge triggers step_planner again.
UpdateBlueprint ==
    /\ cStatus = "running"
    /\ cNext = "update_blueprint"
    /\ WithinLimit(cStep)
    /\ \E text \in BlueprintTexts :
         checkpoint' = [checkpoint EXCEPT !.agent_blueprint = text,
                                          !.messages = Reduce(@, <<AIMessage("update_blueprint")>>, nextId)]
    /\ nextId' = nextId + 1
    /\ log' = Append(log, "update_blueprint")
    /\ cStep' = cStep + 1
    /\ cEvents' = Emit(cEvents, "update_blueprint")
    /\ cNext' = "step_planner"
    /\ UNCHANGED <<client, cliMessages, cStatus, cError, cRouted, cPlanned, runs, agents, agent_states, files, lastCall>>
    /\ UNCHANGED <<gvars, req, xvars>>

\* ask_followup with an edge back to step_planner instead of END.
AskFollowup_BackToPlanner ==
    /\ cStatus = "running"
    /\ cNext = "ask_followup"
    /\ WithinLimit(cStep)
    /\ checkpoint' = [checkpoint EXCEPT !.messages = Reduce(@, <<AIMessage("ask_followup")>>, nextId)]
    /\ nextId' = nextId + 1
    /\ log' = Append(log, "ask_followup")
    /\ cStep' = cStep + 1
    /\ cEvents' = Emit(cEvents, "ask_followup")
    /\ cNext' = "step_planner"
    /\ UNCHANGED <<client, cliMessages, cStatus, cError, cRouted, cPlanned, runs, agents, agent_states, files, lastCall>>
    /\ UNCHANGED <<gvars, req, xvars>>

\* ask_followup: appends "Followup question: ..."; its edge leads to END.
AskFollowup ==
    /\ cStatus = "running"
    /\ cNext = "ask_followup"
    /\ WithinLimit(cStep)
    /\ checkpoint' = [checkpoint EXCEPT !.messages = Reduce(@, <<AIMessage("ask_followup")>>, nextId)]
    /\ nextId' = nextId + 1
    /\ log' = Append(log, "ask_followup")
    /\ cStep' = cStep + 1
    /\ cEvents' = Emit(cEvents, "ask_followup")
    /\ cNext' = ""
    /\ cStatus' = Finished
    /\ UNCHANGED <<client, cliMessages, cError, cRouted, cPlanned, runs, agents, agent_states, files, lastCall>>
    /\ UNCHANGED <<gvars, req, xvars>>

\* generate_agent: stores the AgentConfig of the structured output, appends
\* "Generated agent configuration: ..."; its edge leads to END.
GenerateAgent ==
    /\ cStatus = "running"
    /\ cNext = "generate_agent"
    /\ WithinLimit(cStep)
    /\ \E cfg \in CoreConfigs :
         checkpoint' = [checkpoint EXCEPT !.agent_config = cfg,
                                          !.messages = Reduce(@, <<AIMessage("generate_agent")>>, nextId)]
    /\ nextId' = nextId + 1
    /\ log' = Append(log, "generate_agent")
    /\ cStep' = cStep + 1
    /\ cEvents' = Emit(cEvents, "generate_agent")
    /\ cNext' = ""
    /\ cStatus' = Finished
    /\ UNCHANGED <<client, cliMessages, cError, cRouted, cPlanned, runs, agents, agent_states, files, lastCall>>
    /\ UNCHANGED <<gvars, req, xvars>>

\* A failing node whose message is merged and committed all the same.
NodeRaises_CommitsMessage ==
    /\ cStatus = "running"
    /\ cNext # ""
    /\ WithinLimit(cStep)
    /\ checkpoint' = [checkpoint EXCEPT !.messages = Reduce(@, <<AIMessage(cNext)>>, nextId)]
    /\ nextId' = nextId + 1
    /\ log' = Append(log, cNext)
    /\ cStatus' = "aborted"
    /\ cError' = "ExternalCallError"
    /\ cEvents' = Emit(cEvents, "error")
    /\ UNCHANGED <<client, cliMessages, cNext, cStep, cRouted, cPlanned, runs,
                   agents, agent_states, files, lastCall>>
    /\ UNCHANGED <<gvars, req, xvars>>

\* The LLM call of the triggered node raises: the superstep is not committed
\* and the exception ends the stream ("error" event, then re-raised).
NodeRaises ==
    /\ cStatus = "running"
    /\ cNext # ""
    /\ WithinLimit(cStep)
    /\ cStatus' = "aborted"
    /\ cError' = "ExternalCallError"
    /\ cEvents' = Emit(cEvents, "error")
    /\ UNCHANGED <<client, checkpoint, nextId, cliMessages, cNext, cStep, cRouted, cPlanned, log, runs,
                   agents, agent_states, files, lastCall>>
    /\ UNCHANGED <<gvars, req, xvars>>

\* A node is triggered but the run has used up its supersteps.
CoreRecursionAbort ==
    /\ cStatus = "running"
    /\ cNext # ""
    /\ ~WithinLimit(cStep)
    /\ cStatus' = "aborted"
    /\ cError' = "GraphRecursionError"
    /\ cEvents' = Emit(cEvents, "error")
    /\ UNCHANGED <<client, checkpoint, nextId, cliMessages, cNext, cStep, cRouted, cPlanned, log, runs,
                   agents, agent_states, files, lastCall>>
    /\ UNCHANGED <<gvars, req, xvars>>

\* _on_core_stream_complete: reads the final state, saves the agent_config
\* (if any) under a timestamped name, and the "complete" event is yielded.
\* The clock shows the second of the previous run's end or a later one.
OnCoreStreamComplete ==
    /\ cStatus = "finishing"
    /\ \E stamp \in {t \in {runs - 1, runs} : t >= 1} :
         files' = IF checkpoint.agent_config # NoConfig
                  THEN save_config_to_file(files, checkpoint.agent_config, "", stamp)
                  ELSE files
    /\ cEvents' = Emit(cEvents, "complete")
    /\ cStatus' = "done"
    /\ UNCHANGED <<client, checkpoint, nextId, cliMessages, cNext, cStep, cError, cRouted, cPlanned, log, runs,
                   agents, agent_states, lastCall>>
    /\ UNCHANGED <<gvars, req, xvars>>

(***************************************************************************)
(* The service's registry of generated agents                              *)
(***************************************************************************)
\* The registry belongs to AgentService, which only the API routes reach;
\* the CLI drives the core agent without it.
\* generate_agent_from_core that takes the new id and creates the agent's
\* state before it looks for the agent_config.
GenerateAgentFromCore_StateFirst ==
    /\ client = "service"
    /\ \E agent_id \in {uuid4(DOMAIN agents)} :
         LET agent == generate_agent_from_config(checkpoint.agent_config)
         IN  /\ agent_states' = agent_states @@ (agent_id :> <<>>)
             /\ IF checkpoint.agent_config = NoConfig \/ ~agent.ok
                THEN /\ lastCall' = [op |-> "generate", agent |-> "", events |-> <<"error">>,
                                     error |-> IF checkpoint.agent_config = NoConfig THEN "no_config" ELSE agent.error,
                                     http |-> IF checkpoint.agent_config = NoConfig THEN 400 ELSE 500]
                     /\ UNCHANGED <<agents, files>>
                ELSE /\ files' = save_config_to_file(files, checkpoint.agent_config, agent_id, 0)
                     /\ agents' = agents @@ (agent_id :> agent)
                     /\ lastCall' = [op |-> "generate", agent |-> agent_id, events |-> <<"agent_id">>,
                                     error |-> "", http |-> 200]
    /\ UNCHANGED <<client, checkpoint, nextId, cliMessages, cStatus, cNext, cStep, cEvents, cError,
                   cRouted, cPlanned, log, runs>>
    /\ UNCHANGED <<gvars, req, xvars>>

\* generate_agent_from_core: without an agent_config in the thread's state an
\* error object is returned; otherwise the graph is built (an exception of
\* generate_agent_from_config propagates), the config is saved under the new
\* id, and the compiled graph itself is stored in self.agents.  The route
\* answers 400 for the error object, 500 for an exception, 200 otherwise.
GenerateAgentFromCore ==
    /\ client = "service"
    /\ AgentIds \ DOMAIN agents # {}
    /\ LET agent_config == checkpoint.agent_config
           agent == generate_agent_from_config(agent_config)
       IN  IF agent_config = NoConfig
           THEN /\ lastCall' = [op |-> "generate", agent |-> "", events |-> <<"error">>, error |-> "no_config",
                                http |-> 400]
                /\ UNCHANGED <<agents, agent_states, files>>
           ELSE IF ~agent.ok
           THEN /\ lastCall' = [op |-> "generate", agent |-> "", events |-> <<"exception">>, error |-> agent.error,
                                http |-> 500]
                /\ UNCHANGED <<agents, agent_states, files>>
           ELSE \E agent_id \in {uuid4(DOMAIN agents)} :
                /\ files' = save_config_to_file(files, checkpoint.agent_config, agent_id, 0)
                /\ agents' = agents @@ (agent_id :> agent)
                /\ agent_states' = agent_states @@ (agent_id :> <<>>)
                /\ lastCall' = [op |-> "generate", agent |-> agent_id, events |-> <<"agent_id">>, error |-> "",
                                http |-> 200]
    /\ UNCHANGED <<client, checkpoint, nextId, cliMessages, cStatus, cNext, cStep, cEvents, cError,
                   cRouted, cPlanned, log, runs>>
    /\ UNCHANGED <<gvars, req, xvars>>

\* A stream_message_to_agent that opens a history for an id it does not know.
StreamMessageToAgent_CreatesHistory ==
    /\ client = "service"
    /\ \E agent_id \in AgentIds :
         /\ lastCall' = [op |-> "stream", agent |-> agent_id, events |-> <<"error">>,
                         error |-> IF agent_id \notin DOMAIN agents THEN "not_found" ELSE "TypeError",
                         http |-> 200]
         /\ agent_states' = IF agent_id \notin DOMAIN agents
                            THEN agent_states @@ (agent_id :> <<"user">>)
                            ELSE agent_states
    /\ UNCHANGED <<client, checkpoint, nextId, cliMessages, cStatus, cNext, cStep, cEvents, cError,
                   cRouted, cPlanned, log, runs, agents, files>>
    /\ UNCHANGED <<gvars, req, xvars>>

\* stream_message_to_agent(agent_id, message): an unknown id yields one
\* "error" event.  For a known id the handler evaluates agent_data["agent"]
\* on the stored entry; the entry is the compiled graph, not a dict, so the
\* TypeError is caught by the handler, which yields one "error" event and
\* nothing else.
StreamMessageToAgent ==
    /\ client = "service"
    /\ \E agent_id \in AgentIds :
         lastCall' = [op |-> "stream", agent |-> agent_id, events |-> <<"error">>,
                      error |-> IF agent_id \notin DOMAIN agents THEN "not_found" ELSE "TypeError",
                      http |-> 200]
    /\ UNCHANGED <<client, checkpoint, nextId, cliMessages, cStatus, cNext, cStep, cEvents, cError,
                   cRouted, cPlanned, log, runs, agents, agent_states, files>>
    /\ UNCHANGED <<gvars, req, xvars>>

\* stream_generate_agent_from_core: without an agent_config one "error"
\* event; otherwise a "state" event, one "step" event per step that
\* _generate_agent_with_steps yields (its last step is named "complete"),
\* and a final "complete" event.  An exception of generate_agent_from_config
\* ends the stream with an "error" event after the first two steps.
StreamGenerateAgentFromCore ==
    /\ AgentIds \ DOMAIN agents # {}
    /\ LET agent_config == checkpoint.agent_config
           agent == generate_agent_from_config(agent_config)
       IN  IF agent_config = NoConfig
           THEN /\ lastCall' = [op |-> "generate_stream", agent |-> "", events |-> <<"error">>,
                                error |-> "no_config", http |-> 200]
                /\ UNCHANGED <<agents, agent_states, files>>
           ELSE IF ~agent.ok
           THEN /\ lastCall' = [op |-> "generate_stream", agent |-> "",
                                events |-> <<"state", "step:preparing_config", "step:generating_agent", "error">>,
                                error |-> agent.error, http |-> 200]
                /\ UNCHANGED <<agents, agent_states, files>>
           ELSE \E agent_id \in {uuid4(DOMAIN agents)} :
                /\ files' = save_config_to_file(files, checkpoint.agent_config, agent_id, 0)
                /\ agents' = agents @@ (agent_id :> agent)
                /\ agent_states' = agent_states @@ (agent_id :> <<>>)
                /\ lastCall' = [op |-> "generate_stream", agent |-> agent_id,
                                events |-> Emit(<<"state", "step:preparing_config", "step:generating_agent",
                                                  "step:saving_config", "step:complete">>, "complete"),
                                error |-> "", http |-> 200]
    /\ client = "service"
    /\ UNCHANGED <<client, checkpoint, nextId, cliMessages, cStatus, cNext, cStep, cEvents, cError,
                   cRouted, cPlanned, log, runs>>
    /\ UNCHANGED <<gvars, req, xvars>>

\* send_message_to_agent(agent_id, message) behind POST /{agent_id}/message:
\* for an unknown id the service raises ValueError; for a known id it
\* evaluates agent_data["agent"] on the stored compiled graph, and the
\* TypeError is re-raised.  The route turns every exception into a 500 (its
\* 404 is for a returned error object, which the service never returns).
SendMessageToAgent ==
    /\ client = "service"
    /\ \E agent_id \in AgentIds :
         lastCall' = [op |-> "send", agent |-> agent_id, events |-> <<>>,
                      error |-> IF agent_id \notin DOMAIN agents THEN "ValueError" ELSE "TypeError",
                      http |-> 500]
    /\ UNCHANGED <<client, checkpoint, nextId, cliMessages, cStatus, cNext, cStep, cEvents, cError,
                   cRouted, cPlanned, log, runs, agents, agent_states, files>>
    /\ UNCHANGED <<gvars, req, xvars>>

NextCore ==
    \/ StreamMessageToCore
    \/ StepPlanner
    \/ UpdateBlueprint
    \/ AskFollowup
    \/ GenerateAgent
    \/ NodeRaises
    \/ CoreRecursionAbort
    \/ OnCoreStreamComplete
    \/ GenerateAgentFromCore
    \/ StreamMessageToAgent
    \/ StreamGenerateAgentFromCore
    \/ SendMessageToAgent

SpecCore == InitCore /\ [][NextCore]_vars

(***************************************************************************)
(* Overlapping stream requests on the core agent's thread                  *)
(***************************************************************************)
\* What executing a core node on a state can give: the state with the node's
\* delta merged, the node triggered next, and the error if the superstep is
\* refused.  id is the id the reducer gives the node's message.
NodeOutcomes(state, node, id) ==
    LET with(author) == [state EXCEPT !.messages = Reduce(@, <<AIMessage(author)>>, id)]
    IN  IF node = "step_planner"
        THEN {[state |-> [with(node) EXCEPT !.planned_step = step],
               next |-> IF route_to_step([state EXCEPT !.planned_step = step]) \in CoreNodes
                        THEN route_to_step([state EXCEPT !.planned_step = step]) ELSE "",
               error |-> ""] : step \in NextStep}
             \cup {[state |-> state, next |-> "", error |-> "RoutingError"]
                      : step \in {x \in NextStep : route_to_step([state EXCEPT !.planned_step = x]) \notin CoreNodes}}
        ELSE IF node = "update_blueprint"
        THEN {[state |-> [with(node) EXCEPT !.agent_blueprint = text], next |-> "step_planner", error |-> ""]
                 : text \in BlueprintTexts}
        ELSE IF node = "ask_followup"
        THEN {[state |-> with(node), next |-> "", error |-> ""]}
        ELSE {[state |-> [with(node) EXCEPT !.agent_config = cfg], next |-> "", error |-> ""]
                 : cfg \in CoreConfigs}

\* stream_message_to_core has no guard on a stream already being served: the
\* request loads the thread's latest checkpoint, merges its HumanMessage and
\* commits the input.
ConcStart(r) ==
    /\ req[r].status = "idle"
    /\ LET state == [checkpoint EXCEPT !.messages = Reduce(@, <<HumanMessage>>, nextId)]
       IN  /\ checkpoint' = state
           /\ req' = [req EXCEPT ![r] = [status |-> "running", next |-> "step_planner", step |-> 0,
                                         state |-> state, events |-> <<"state">>]]
    /\ nextId' = nextId + 1
    /\ UNCHANGED <<client, cliMessages, cStatus, cNext, cStep, cEvents, cError, cRouted, cPlanned, log, runs,
                   agents, agent_states, files, lastCall>>
    /\ UNCHANGED <<gvars, xvars>>

\* One superstep of request r's run, on the run's own channel values; the
\* commit makes them the thread's latest checkpoint.
ConcSuperstep(r) ==
    /\ req[r].status = "running"
    /\ req[r].next # ""
    /\ WithinLimit(req[r].step)
    /\ req[r].step < MaxConcSteps
    /\ \E o \in NodeOutcomes(req[r].state, req[r].next, nextId) :
         IF o.error = ""
         THEN /\ checkpoint' = o.state
              /\ nextId' = nextId + 1
              /\ req' = [req EXCEPT ![r] = [status |-> IF o.next = "" THEN "finishing" ELSE "running",
                                            next |-> o.next, step |-> req[r].step + 1, state |-> o.state,
                                            events |-> Append(req[r].events, req[r].next)]]
         ELSE /\ req' = [req EXCEPT ![r].status = "aborted", ![r].events = Append(@, "error")]
              /\ UNCHANGED <<checkpoint, nextId>>
    /\ UNCHANGED <<client, cliMessages, cStatus, cNext, cStep, cEvents, cError, cRouted, cPlanned, log, runs,
                   agents, agent_states, files, lastCall>>
    /\ UNCHANGED <<gvars, xvars>>

\* The external call of the node triggered in request r's run raises:
\* "error" event, nothing committed.
ConcNodeRaises(r) ==
    /\ req[r].status = "running"
    /\ req[r].next # ""
    /\ WithinLimit(req[r].step)
    /\ req' = [req EXCEPT ![r].status = "aborted", ![r].events = Append(@, "error")]
    /\ UNCHANGED <<client, checkpoint, nextId, cliMessages, cStatus, cNext, cStep, cEvents, cError, cRouted,
                   cPlanned, log, runs, agents, agent_states, files, lastCall>>
    /\ UNCHANGED <<gvars, xvars>>

\* _on_core_stream_complete for request r: agent.get_state(config) reads the
\* thread's latest checkpoint, whichever run committed it.
ConcComplete(r) ==
    /\ req[r].status = "finishing"
    /\ files' = IF checkpoint.agent_config # NoConfig
                THEN save_config_to_file(files, checkpoint.agent_config, "", 1)
                ELSE files
    /\ req' = [req EXCEPT ![r].status = "done", ![r].events = Append(@, "complete")]
    /\ UNCHANGED <<client, checkpoint, nextId, cliMessages, cStatus, cNext, cStep, cEvents, cError, cRouted,
                   cPlanned, log, runs, agents, agent_states, lastCall>>
    /\ UNCHANGED <<gvars, xvars>>

NextConc ==
    \/ \E r \in Requests : ConcStart(r)
    \/ \E r \in Requests : ConcSuperstep(r)
    \/ \E r \in Requests : ConcNodeRaises(r)
    \/ \E r \in Requests : ConcComplete(r)

InitConc == InitCore /\ client = "service"

SpecConc == InitConc /\ [][NextConc]_vars

(***************************************************************************)
(* Serialization of the step events of one stream                          *)
(***************************************************************************)
\* Chunks of the run whose stream is studied.
MaxChunks == 3

\* What the value of a field in a chunk's updates may be, by the branch of
\* _make_json_serializable it takes: a JSON primitive; a LangChain message, an
\* Enum member or a Pydantic model (converted to their JSON form); a Pydantic
\* model whose model_dump() holds a value without a JSON form; a dict with a
\* key that json cannot encode; an object with a __dict__; an object whose
\* __dict__ cannot be converted; an object without a __dict__.
PayloadKinds ==
    {"primitive", "message", "enum", "model", "model_nonjson", "dict_nonstr_key",
     "object", "object_unconvertible", "opaque"}

\* _make_json_serializable: the form of the result.  model_dump()'s result is
\* returned as it is, and the keys of a dict are kept as they are ("raw": a
\* value json.dumps cannot encode is still in it); str(obj) is the fallback
\* for an object without a __dict__ or whose __dict__ cannot be converted.
make_json_serializable(kind) ==
    IF kind \in {"primitive", "enum"} THEN "value"
    ELSE IF kind \in {"message", "model", "object"} THEN "dict"
    ELSE IF kind \in {"model_nonjson", "dict_nonstr_key"} THEN "raw"
    ELSE "str"

\* format_sse_event(event_type, data): json.dumps of the converted data
\* raises TypeError when a value without a JSON form is left in it.
format_sse_event(event_type, kind) ==
    IF make_json_serializable(kind) = "raw"
    THEN [raised |-> TRUE, event |-> [type |-> event_type, data |-> "TypeError"]]
    ELSE [raised |-> FALSE, event |-> [type |-> event_type, data |-> make_json_serializable(kind)]]

InitSse ==
    /\ GenIdle
    /\ client = "service"
    /\ ServiceInit
    /\ llm = Unused /\ lit = Unused /\ gen = Unused
    /\ \E n \in 1..MaxChunks :
         \E chunks \in [1..n -> PayloadKinds] :
            sse = [status |-> "idle", chunks |-> chunks, pos |-> 0, events |-> <<>>]

\* _stream_agent_response up to its first yield: the "state" event.
SseStart ==
    /\ sse.status = "idle"
    /\ sse' = [sse EXCEPT !.status = "streaming",
                          !.events = Append(@, format_sse_event("state", "primitive").event)]
    /\ UNCHANGED <<gvars, cvars, req, llm, lit, gen>>

\* The next chunk of agent.astream: its "step" event is formatted and
\* yielded; an exception of format_sse_event is caught by the handler, which
\* yields an "error" event and re-raises.
SseStep ==
    /\ sse.status = "streaming"
    /\ sse.pos < Len(sse.chunks)
    /\ LET f == format_sse_event("step", sse.chunks[sse.pos + 1])
       IN  IF f.raised
           THEN sse' = [sse EXCEPT !.status = "failed",
                                   !.events = Append(@, format_sse_event("error", "primitive").event)]
           ELSE sse' = [sse EXCEPT !.pos = @ + 1, !.events = Append(@, f.event)]
    /\ UNCHANGED <<gvars, cvars, req, llm, lit, gen>>

\* After the last chunk: on_complete's result is yielded as "complete".
SseComplete ==
    /\ sse.status = "streaming"
    /\ sse.pos = Len(sse.chunks)
    /\ sse' = [sse EXCEPT !.status = "done",
                          !.events = Append(@, format_sse_event("complete", "primitive").event)]
    /\ UNCHANGED <<gvars, cvars, req, llm, lit, gen>>

NextSse == SseStart \/ SseStep \/ SseComplete

SpecSse == InitSse /\ [][NextSse]_vars

(***************************************************************************)
(* One execution of an llm node                                            *)
(***************************************************************************)
\* Limit messages to last N.
MAX_MESSAGES == 4

\* Longest history an llm node is executed on.
MaxHistory == 6

\* Contents of the messages of a history, by position.
Contents == <<"m1", "m2", "m3", "m4", "m5", "m6", "m7", "m8">>

\* NodeConfig.objective: a string, possibly empty.
Objectives == {"", "objective"}

\* Histories a node may be given: the run's HumanMessage and the messages
\* the nodes before it appended.
Histories ==
    UNION {{[i \in 1..n |-> [role |-> roles[i], content |-> Contents[i]]] : roles \in [1..n -> {"human", "ai"}]}
              : n \in 1..MaxHistory}

SystemMessage(content) == [role |-> "system", content |-> content]

\* llm_node that sends the whole history.
llm_node_WholeHistory(objective, messages) ==
    [calls |-> <<IF objective # "" THEN <<SystemMessage(objective)>> \o messages ELSE messages>>,
     delta |-> [messages |-> <<[role |-> "ai", content |-> "response"]>>]]

\* llm_node(state) of create_llm_node(config): the calls of llm.invoke it
\* makes, each with its argument, and the delta it returns.
llm_node(objective, messages) ==
    LET limited_messages ==
            IF Len(messages) > MAX_MESSAGES
            THEN SubSeq(messages, Len(messages) - MAX_MESSAGES + 1, Len(messages))
            ELSE messages
        messages_with_system ==
            IF objective # "" THEN <<SystemMessage(objective)>> \o limited_messages ELSE limited_messages
    IN  [calls |-> <<messages_with_system>>,
         delta |-> [messages |-> <<[role |-> "ai", content |-> "response"]>>]]

InitLlm ==
    /\ GenIdle
    /\ client = "service"
    /\ ServiceInit
    /\ sse = Unused /\ lit = Unused /\ gen = Unused
    /\ \E objective \in Objectives, messages \in Histories :
         llm = [status |-> "ready", objective |-> objective, messages |-> messages,
                calls |-> <<>>, delta |-> [messages |-> <<>>]]

\* The engine executes the node on the state.
ExecuteLlmNode ==
    /\ llm.status = "ready"
    /\ llm' = [llm EXCEPT !.status = "returned",
                          !.calls = llm_node(llm.objective, llm.messages).calls,
                          !.delta = llm_node(llm.objective, llm.messages).delta]
    /\ UNCHANGED <<gvars, cvars, req, sse, lit, gen>>

NextLlm == ExecuteLlmNode

SpecLlm == InitLlm /\ [][NextLlm]_vars

(***************************************************************************)
(* One execution of a core node on a state of the declared schema          *)
(***************************************************************************)
\* The attribute the nodes read the blueprint from, and the key under which
\* update_blueprint returns it, as nodes.py spells it.
BlueprintAttr == "agent_blueprint"

\* Instances of AgentCreatorState a node may be handed, with the fields the
\* class declares as state.py spells them.
SchemaStates ==
    {[messages |-> m, agent_bleuprint |-> b, agent_config |-> c, planned_step |-> p] :
        m \in {<<"user">>, <<"user", "user">>},
        b \in {""} \cup BlueprintTexts,
        c \in {NoConfig} \cup CoreConfigs,
        p \in {""} \cup NextStep}

\* getattr on a Pydantic model: a field's value, AttributeError for a name
\* the model does not declare.
GetAttr(state, name) == IF name \in DOMAIN state THEN state[name] ELSE "AttributeError"

\* The dict a node returns, given the results of its LLM call.
NodeReturn(node, step, text, cfg) ==
    IF node = "step_planner" THEN [planned_step |-> step, messages |-> <<node>>]
    ELSE IF node = "update_blueprint" THEN [agent_blueprint |-> text, messages |-> <<node>>]
    ELSE IF node = "ask_followup" THEN [messages |-> <<node>>]
    ELSE [agent_config |-> cfg, messages |-> <<node>>]

\* The engine's merge of a node's return value: a key that is a channel of
\* the schema is written (messages through its reducer), any other key of
\* the dict is not a channel and is left out.
MergeReturn(state, delta) ==
    [k \in DOMAIN state |->
        IF k \notin DOMAIN delta THEN state[k]
        ELSE IF k = "messages" THEN state[k] \o delta[k]
        ELSE delta[k]]

InitLit ==
    /\ GenIdle
    /\ client = "service"
    /\ ServiceInit
    /\ sse = Unused /\ llm = Unused /\ gen = Unused
    /\ \E node \in CoreNodes, state \in SchemaStates :
         lit = [status |-> "ready", node |-> node, state |-> state, read |-> "", text |-> "", result |-> state]

\* The engine calls the node with the state.  Every node evaluates
\* state.agent_blueprint while it builds its prompt (step_planner already in
\* its first log line), before its LLM call; an AttributeError ends the
\* execution and nothing is merged.
ExecuteCoreNode ==
    /\ lit.status = "ready"
    /\ \E step \in NextStep, text \in BlueprintTexts, cfg \in CoreConfigs :
         IF GetAttr(lit.state, BlueprintAttr) = "AttributeError"
         THEN lit' = [lit EXCEPT !.status = "raised", !.read = "AttributeError"]
         ELSE lit' = [lit EXCEPT !.status = "returned",
                                 !.read = GetAttr(lit.state, BlueprintAttr),
                                 !.text = IF lit.node = "update_blueprint" THEN text ELSE "",
                                 !.result = MergeReturn(lit.state, NodeReturn(lit.node, step, text, cfg))]
    /\ UNCHANGED <<gvars, cvars, req, sse, llm, gen>>

NextLit == ExecuteCoreNode

SpecLit == InitLit /\ [][NextLit]_vars

(***************************************************************************)
(* Overlapping agent-generation calls                                      *)
(***************************************************************************)
\* Ids uuid4 may hand out while generation calls overlap.
GenAgentIds == {"a1", "a2", "a3", "a4", "a5"}

\* generate_agent_from_core calls made while the streams are served.
MaxPlainCalls == 1

\* The thread's state after a run of the core agent that ended in
\* generate_agent with the given AgentConfig.
FinalizedState(cfg) ==
    [messages |-> <<[id |-> 1, author |-> "user"], [id |-> 2, author |-> "step_planner"],
                    [id |-> 3, author |-> "generate_agent"]>>,
     agent_blueprint |-> "", agent_config |-> cfg, planned_step |-> "generate_agent"]

\* The ids taken by the calls so far, registered or not.
TakenIds == {gen.id[r] : r \in Requests} \cup {gen.order[i] : i \in 1..Len(gen.order)}

InitGenStreams ==
    /\ GenIdle
    /\ client = "service"
    /\ \E cfg \in CoreConfigs \cup {NoConfig} : checkpoint = FinalizedState(cfg)
    /\ nextId = 4
    /\ cliMessages = <<>>
    /\ cStatus = "done"
    /\ cNext = ""
    /\ cStep = 2
    /\ cEvents = <<"state", "step_planner", "generate_agent", "complete">>
    /\ cError = ""
    /\ cRouted = "generate_agent"
    /\ cPlanned = {"generate_agent"}
    /\ log = <<"user", "step_planner", "generate_agent">>
    /\ runs = 1
    /\ agents = [a \in {} |-> NoGraph]
    /\ agent_states = [a \in {} |-> <<>>]
    /\ files = {}
    /\ lastCall = [op |-> "", agent |-> "", events |-> <<>>, error |-> "", http |-> 0]
    /\ req = [r \in Requests |-> NoRun]
    /\ sse = Unused /\ llm = Unused /\ lit = Unused
    /\ gen = [order |-> <<>>, plain |-> 0,
              pc |-> [r \in Requests |-> "idle"],
              id |-> [r \in Requests |-> ""],
              reported |-> [r \in Requests |-> ""],
              events |-> [r \in Requests |-> <<>>]]

\* stream_generate_agent_from_core up to its first yield: without an
\* agent_config the "error" event and return, otherwise the "state" event.
GenStreamStart(r) ==
    /\ gen.pc[r] = "idle"
    /\ IF checkpoint.agent_config = NoConfig
       THEN gen' = [gen EXCEPT !.pc[r] = "failed", !.events[r] = Append(@, "error")]
       ELSE gen' = [gen EXCEPT !.pc[r] = "configured", !.events[r] = Append(@, "state")]
    /\ UNCHANGED <<gvars, cvars, req, sse, llm, lit>>

\* _generate_agent_with_steps up to its first yield: the config is read
\* again, the agent_id is drawn, and "preparing_config" is passed on as a
\* "step" event.
GenStreamPrepare(r) ==
    /\ gen.pc[r] = "configured"
    /\ gen' = [gen EXCEPT !.pc[r] = "preparing", !.id[r] = uuid4_Among(GenAgentIds, TakenIds),
                          !.events[r] = Append(@, "step:preparing_config")]
    /\ UNCHANGED <<gvars, cvars, req, sse, llm, lit>>

\* ... up to the second yield: "generating_agent".
GenStreamGenerating(r) ==
    /\ gen.pc[r] = "preparing"
    /\ gen' = [gen EXCEPT !.pc[r] = "generating", !.events[r] = Append(@, "step:generating_agent")]
    /\ UNCHANGED <<gvars, cvars, req, sse, llm, lit>>

\* ... up to the third yield: generate_agent_from_config builds the graph
\* and "saving_config" is passed on; an exception of the generator ends the
\* stream with an "error" event.
GenStreamBuild(r) ==
    /\ gen.pc[r] = "generating"
    /\ IF generate_agent_from_config(checkpoint.agent_config).ok
       THEN gen' = [gen EXCEPT !.pc[r] = "saving", !.events[r] = Append(@, "step:saving_config")]
       ELSE gen' = [gen EXCEPT !.pc[r] = "failed", !.events[r] = Append(@, "error")]
    /\ UNCHANGED <<gvars, cvars, req, sse, llm, lit>>

\* ... up to the last yield: the config is saved, the agent is stored under
\* its id in self.agents (a dict: the new key is its last), and the id is
\* passed on in the "step" event of the step named "complete".
GenStreamStore(r) ==
    /\ gen.pc[r] = "saving"
    /\ gen' = [gen EXCEPT !.pc[r] = "stored", !.order = Append(@, gen.id[r]),
                          !.events[r] = Append(@, "step:complete")]
    /\ UNCHANGED <<gvars, cvars, req, sse, llm, lit>>

\* The generator is exhausted: the id of the "complete" event is read back
\* with list(self.agents.keys())[-1].
GenStreamFinish(r) ==
    /\ gen.pc[r] = "stored"
    /\ gen' = [gen EXCEPT !.pc[r] = "done", !.reported[r] = LastKey(gen.order),
                          !.events[r] = Append(@, "complete")]
    /\ UNCHANGED <<gvars, cvars, req, sse, llm, lit>>

\* generate_agent_from_core served between two steps of the streams: it does
\* not suspend between drawing its id and storing the agent.
GenPlainCall ==
    /\ gen.plain < MaxPlainCalls
    /\ generate_agent_from_config(checkpoint.agent_config).ok
    /\ gen' = [gen EXCEPT !.plain = @ + 1, !.order = Append(@, uuid4_Among(GenAgentIds, TakenIds))]
    /\ UNCHANGED <<gvars, cvars, req, sse, llm, lit>>

NextGenStreams ==
    \/ \E r \in Requests : GenStreamStart(r)
    \/ \E r \in Requests : GenStreamPrepare(r)
    \/ \E r \in Requests : GenStreamGenerating(r)
    \/ \E r \in Requests : GenStreamBuild(r)
    \/ \E r \in Requests : GenStreamStore(r)
    \/ \E r \in Requests : GenStreamFinish(r)
    \/ GenPlainCall

SpecGenStreams == InitGenStreams /\ [][NextGenStreams]_vars

(***************************************************************************)
(* Properties of the generator and of the runs of generated graphs         *)
(***************************************************************************)
\* generate_agent_from_config has been called on the GraphSpec.
CompileAttempted == compiled # NoGraph

\* The errors generate_agent_from_config raises for a bad GraphSpec (all are
\* ValueError in the code): the spec's ConfigValidationError.
ConfigValidationError ==
    {"unknown_node_type", "duplicate_node", "unknown_edge_source", "no_entrypoint", "unknown_edge_target"}

RECURSIVE ReachN(_, _, _)
ReachN(graph, from, k) ==
    IF k = 0 THEN from ELSE ReachN(graph, from \cup Successors(graph, from), k - 1)

\* Nodes reachable from n by one or more edges.
Descendants(graph, n) == ReachN(graph, Successors(graph, {n}), Len(NodeSeq))

Acyclic(graph) == \A n \in graph.nodes : n \notin Descendants(graph, n)

ReachesEnd(graph, n) == \E e \in graph.edges : e[2] = END /\ e[1] \in {n} \cup Descendants(graph, n)

\* A single DAG whose nodes are all reachable from START and all reach END.
SingleDAG(graph) ==
    /\ Acyclic(graph)
    /\ graph.nodes \subseteq ReachN(graph, Successors(graph, {START}), Len(NodeSeq))
    /\ \A n \in graph.nodes : ReachesEnd(graph, n)

\* agent.get_graph(): the node ids and the edges of the compiled graph, the
\* sentinels shown by the names the GraphSpec JSON uses.
get_graph(graph) ==
    [nodes |-> graph.nodes,
     edges |-> {<<IF e[1] = START THEN "START" ELSE e[1], IF e[2] = END THEN "END" ELSE e[2]>> : e \in graph.edges}]

\* C1: a finished run of a graph built from a single DAG with N nodes took at
\* most N supersteps and executed every node exactly once.
C1_DagRunsEveryNodeOnce ==
    (gStatus = "done" /\ compiled.ok /\ SingleDAG(compiled))
        => (gStep <= Cardinality(compiled.nodes) /\ \A n \in compiled.nodes : gExec[n] = 1)

\* Sources of the edges that enter node n, START left out.
Preds(graph, n) == {e[1] : e \in {d \in graph.edges : d[2] = n}} \ {START}

\* Positions of the chunks of node n in the stream of the run.
ChunksOf(n) == {i \in 1..Len(gEvents) : gEvents[i] = n}

\* C11: in a run of a compiled graph that is a single DAG (every node
\* reachable from START), a node with two or more incoming edges executes at
\* most once, and not before each of its predecessors has executed.
C11_JoinWaitsForAllPredecessors ==
    (compiled.ok /\ SingleDAG(compiled))
        => \A n \in compiled.nodes :
              Cardinality({e \in compiled.edges : e[2] = n}) >= 2
                 => /\ gExec[n] <= 1
                    /\ \A i \in ChunksOf(n) : \A q \in Preds(compiled, n) :
                          \E j \in ChunksOf(q) : j < i

HasUnknownEndpoint(cfg) ==
    \E e \in cfg.edges : e[1] \notin DeclaredIds(cfg) \cup {"START", "END"}
                         \/ e[2] \notin DeclaredIds(cfg) \cup {"START", "END"}

HasUnknownType(cfg) == \E i \in 1..Len(cfg.nodes) : cfg.nodes[i].type \notin NodeType

C9_NoCyclicGraphCompiled == compiled.ok => Acyclic(compiled)

CoreRunEnded == cStatus \in {"finishing", "done", "aborted"}

\* Every decision of step_planner in the current run was update_blueprint.
AlwaysRevise == cPlanned = {"update_blueprint"}

C3_RouterTotality == cRouted # "" => cRouted \in RouteTargets

\* C4: when route_to_step has returned a value outside the declared
\* destinations, the run is aborted with a RoutingError and the superstep of
\* the planner is not in the thread's checkpoint.
C4_InvalidRouteAborts ==
    (cRouted # "" /\ cRouted \notin RouteTargets)
        => /\ cStatus = "aborted"
           /\ cError = "RoutingError"
           /\ checkpoint.messages[Len(checkpoint.messages)].author # "step_planner"

\* Authors of a message list.
Authors(msgs) == [i \in 1..Len(msgs) |-> msgs[i].author]

FullyMerged(state) ==
    LET A == Authors(state.messages)
        Wrote(node) == \E i \in 1..Len(A) : A[i] = node
    IN  /\ (state.planned_step # "") = Wrote("step_planner")
        /\ (state.agent_blueprint # "") = Wrote("update_blueprint")
        /\ (state.agent_config # NoConfig) = Wrote("generate_agent")
        /\ \A i \in 1..Len(A) :
              A[i] \in RouteTargets
                 => /\ i > 1
                    /\ A[i - 1] = "step_planner"
                    /\ (i = Len(A) => state.planned_step = A[i])

Terminal == {"complete", "error"}

\* A stream's events hold at most one terminal event, nothing follows it, and
\* a stream that has ended holds one.
OneTerminal(events, ended) ==
    LET T == {i \in 1..Len(events) : events[i] \in Terminal}
    IN  /\ Cardinality(T) <= 1
        /\ T # {} => T = {Len(events)}
        /\ ended => T # {}

\* C14: the core-agent stream, the generated-agent stream and the
\* agent-generation stream each emit exactly one terminal event, as their last
\* event: "complete" when the run or the generation ended normally, "error"
\* when it was aborted.
C14_OneTerminalEvent ==
    /\ client = "service"
          => /\ OneTerminal(cEvents, cStatus \in {"done", "aborted"})
             /\ cStatus = "done" => cEvents[Len(cEvents)] = "complete"
             /\ cStatus = "aborted" => cEvents[Len(cEvents)] = "error"
    /\ lastCall.op \in {"stream", "generate_stream"}
          => /\ OneTerminal(lastCall.events, TRUE)
             /\ lastCall.error = "" => lastCall.events[Len(lastCall.events)] = "complete"
             /\ lastCall.error # "" => lastCall.events[Len(lastCall.events)] = "error"

C14_Witness ==
    /\ cStatus = "done"
    /\ Len(cEvents) >= 5
    /\ lastCall.op = "generate_stream"
    /\ lastCall.agent \in DOMAIN agents

\* The nodes executed in the current run of the core agent, in order.
IsCoreNode(e) == e \in CoreNodes
RunTrace == SelectSeq(cEvents, IsCoreNode)

\* ask_followup and generate_agent end the run: nothing executes after them
\* (so each executes at most once per run).
TerminalNodesEndRun(T) ==
    \A i \in 1..Len(T) : T[i] \in {"ask_followup", "generate_agent"} => i = Len(T)

\* Position j of trace T executes a node that has executed before in the run.
Revisits(T, j) == \E i \in 1..(j - 1) : T[i] = T[j]

C16_StoredConfigCompiles ==
    checkpoint.agent_config # NoConfig => generate_agent_from_config(checkpoint.agent_config).ok

\* C17: a generate-from-blueprint call that succeeded registered a compiled
\* agent under the id it returned, and a send-message call to a registered id
\* returns {message}.
C17_GeneratedAgentAnswers ==
    /\ (lastCall.op = "generate" /\ lastCall.error = "")
          => (lastCall.agent \in DOMAIN agents /\ agents[lastCall.agent].ok /\ lastCall.http = 200)
    /\ (lastCall.op = "send" /\ lastCall.agent \in DOMAIN agents)
          => (lastCall.error = "" /\ lastCall.http = 200)

\* C19: a send-message call with an unregistered id is answered "not found"
\* (404, not the 500 of an internal failure), and one with a registered id
\* returns {message}.
C19_NotFoundIsDistinguished ==
    lastCall.op = "send"
        => IF lastCall.agent \in DOMAIN agents
           THEN lastCall.http = 200
           ELSE lastCall.http = 404

\* A step that is a generate-from-blueprint call (plain or streamed).
GenerateCall == lastCall' # lastCall /\ lastCall'.op \in {"generate", "generate_stream"}

\* C18: a generate-from-blueprint call made while the checkpoint holds no
\* agent_config answers with the structured error and changes neither the
\* registry, nor the agent states, nor the files.
C18_NoConfigNoChange ==
    [][(GenerateCall /\ checkpoint.agent_config = NoConfig)
          => /\ lastCall'.error = "no_config"
             /\ lastCall'.agent = ""
             /\ lastCall'.events = <<"error">>
             /\ agents' = agents
             /\ agent_states' = agent_states
             /\ files' = files
             /\ checkpoint' = checkpoint]_vars

C18_Witness ==
    /\ lastCall.op = "generate"
    /\ lastCall.error = "no_config"
    /\ lastCall.http = 400
    /\ runs >= 1
    /\ cStatus = "done"
    /\ checkpoint.agent_config = NoConfig

\* C20: when the external call of a node fails, the stream gets an "error"
\* event and the checkpoint stays as committed before that superstep; as long
\* as the run stays aborted nothing of it executes or is committed; and the
\* next run on the thread starts from that checkpoint plus its new message.
C20_FailureKeepsCheckpoint ==
    [][/\ (cStatus = "running" /\ cStatus' = "aborted" /\ cError' = "ExternalCallError")
             => /\ checkpoint' = checkpoint
                /\ cStep' = cStep
                /\ client = "service" => cEvents' = Append(cEvents, "error")
       /\ (cStatus = "aborted" /\ cError = "ExternalCallError")
             => \/ /\ cStatus' = "aborted"
                   /\ cStep' = cStep
                   /\ cEvents' = cEvents
                   /\ checkpoint' = checkpoint
                \/ /\ cStatus' = "running"
                   /\ cStep' = 0
                   /\ cNext' = "step_planner"
                   /\ checkpoint' = [checkpoint EXCEPT
                                        !.messages = Append(@, [id |-> nextId, author |-> "user"])]]_vars

C20_Witness ==
    /\ cStatus = "aborted"
    /\ cError = "ExternalCallError"
    /\ cStep >= 2
    /\ runs = 2

\* a is an initial segment of b.
IsPrefix(a, b) == Len(a) <= Len(b) /\ SubSeq(b, 1, Len(a)) = a

\* C24: every step that changes the thread's message history (the merge of a
\* run's input, the merge of a node's delta) keeps the history it found as a
\* prefix and adds one message at the end.
C24_HistoryAppendOnly ==
    [][checkpoint'.messages # checkpoint.messages
          => /\ IsPrefix(checkpoint.messages, checkpoint'.messages)
             /\ Len(checkpoint'.messages) = Len(checkpoint.messages) + 1]_vars

\* A second run on the thread, by a caller that resends its list, has merged
\* a node's delta into a history that held the first run's messages.
C24_Witness ==
    /\ client = "cli"
    /\ runs = 2
    /\ cStep >= 1
    /\ Len(cliMessages) = 2
    /\ Len(checkpoint.messages) >= 5
    /\ checkpoint.messages[1].author = "user"

\* C27: the superstep of step_planner merges nothing into the shared state
\* (history and fields stay as they were) and triggers exactly one node, the
\* one route_to_step returned.
C27_RouterMergesNothing ==
    [][(cStatus = "running" /\ cNext = "step_planner" /\ cStep' = cStep + 1)
          => /\ checkpoint' = checkpoint
             /\ cNext' \in CoreNodes
             /\ cNext' = cRouted']_vars

\* C30: a stream_message_to_agent call for an id that is not registered emits
\* the single event "error" and changes neither the registry, nor any
\* per-agent history, nor the checkpoint, nor the saved files, and starts no
\* run.
C30_UnknownAgentStreamOnlyReportsError ==
    [][(/\ lastCall' # lastCall
        /\ lastCall'.op = "stream"
        /\ lastCall'.agent \notin DOMAIN agents)
       => /\ lastCall'.events = <<"error">>
          /\ lastCall'.error = "not_found"
          /\ UNCHANGED <<agents, agent_states, checkpoint, files, runs, cStatus, cStep, cEvents, log>>]_vars

\* An unknown id was streamed to while another agent is registered and the
\* core thread has a checkpoint of a run.
C30_Witness ==
    /\ lastCall.op = "stream"
    /\ lastCall.error = "not_found"
    /\ lastCall.agent \notin DOMAIN agents
    /\ DOMAIN agents # {}
    /\ runs >= 1

\* C28: the history the service keeps for a registered agent never holds
\* more than MAX_MESSAGES + 1 entries, and after a call to that agent it ends
\* with the call's user message, followed by the agent's response when the
\* call succeeded.
C28_AgentHistoryBoundedAndCurrent ==
    /\ \A a \in DOMAIN agents : Len(agent_states[a]) <= MAX_MESSAGES + 1
    /\ (lastCall.op \in {"send", "stream"} /\ lastCall.agent \in DOMAIN agents)
          => LET h == agent_states[lastCall.agent]
             IN  IF lastCall.error = ""
                 THEN Len(h) >= 2 /\ h[Len(h) - 1] = "user" /\ h[Len(h)] = "agent"
                 ELSE Len(h) >= 1 /\ h[Len(h)] = "user"

\* C6: streaming a message to a registered agent built from the linear
\* GraphSpec START -> n1 -> ... -> nk -> END yields k "step" events, one per
\* node in chain order, followed by one "complete" event.
C6_LinearChainStream ==
    \A k \in 1..Len(NodeSeq) :
        (/\ lastCall.op = "stream"
         /\ lastCall.agent \in DOMAIN agents
         /\ agents[lastCall.agent] = generate_agent_from_config(Chain(k)))
            => lastCall.events = [i \in 1..k |-> NodeSeq[i]] \o <<"complete">>

\* The engine's part of that scenario, on agent.stream of the compiled chain:
\* k supersteps, k appended messages and k chunks, in chain order.
LinearChainRun ==
    \A k \in 1..Len(NodeSeq) :
        (gStatus = "done" /\ compiled = generate_agent_from_config(Chain(k)))
            => /\ gStep = k
               /\ gMessages = <<"user">> \o [i \in 1..k |-> NodeSeq[i]]
               /\ gEvents = [i \in 1..k |-> NodeSeq[i]]

(***************************************************************************)
(* Properties of overlapping requests                                      *)
(***************************************************************************)
\* Requests whose run on the thread has started and not yet ended.
ActiveRuns == {r \in Requests : req[r].status \in {"running", "finishing"}}

\* C12: at no time are two runs active on the service's thread.
C12_OneActiveRunPerThread == Cardinality(ActiveRuns) <= 1

(***************************************************************************)
(* Properties of the serialization of step events                          *)
(***************************************************************************)
\* Payloads that json.dumps cannot encode as they are and that have no
\* structured JSON form of their own.
Unserializable == {"model_nonjson", "dict_nonstr_key", "object_unconvertible", "opaque"}

\* C21: a step payload that cannot be serialized does not abort the stream:
\* its step event is emitted with a string representation, no "error" event
\* is emitted, and a stream that has ended emitted one step event per chunk
\* and the "complete" event.
C21_SerializationFailureNonFatal ==
    /\ sse.status # "failed"
    /\ \A i \in 1..Len(sse.events) : sse.events[i].type # "error"
    /\ \A i \in 1..sse.pos :
          sse.chunks[i] \in Unserializable => sse.events[i + 1] = [type |-> "step", data |-> "str"]
    /\ sse.status = "done"
          => /\ Len(sse.events) = Len(sse.chunks) + 2
             /\ sse.events[Len(sse.events)].type = "complete"

(***************************************************************************)
(* Properties of the files in configs/                                     *)
(***************************************************************************)
\* C22: the files in configs/ are, one for one, the registered (finalized)
\* agents: every file is named from the id of a registered agent and a
\* sanitized agent name, and every registered agent has exactly one file; in
\* particular no file comes from a streamed run alone.
C22_OneFilePerFinalizedAgent ==
    /\ \A f \in files :
          /\ f.agent_id \in DOMAIN agents
          /\ \E cfg \in CoreConfigs : f.name = Sanitize(cfg.agent_name)
    /\ \A a \in DOMAIN agents : Cardinality({f \in files : f.agent_id = a}) = 1

(***************************************************************************)
(* Properties of the llm node                                              *)
(***************************************************************************)
\* The last min(Len(messages), MAX_MESSAGES) messages, in their order.
Window(messages) ==
    [i \in 1..(IF Len(messages) < MAX_MESSAGES THEN Len(messages) ELSE MAX_MESSAGES)
        |-> messages[Len(messages) - (IF Len(messages) < MAX_MESSAGES THEN Len(messages) ELSE MAX_MESSAGES) + i]]

\* The delta appends one message and writes no other field.
OneMessageDelta(delta) == DOMAIN delta = {"messages"} /\ Len(delta.messages) = 1

\* C25 (as stated): an execution of an llm node makes one completion call,
\* whose context is the objective as system message followed by the last
\* min(len, 4) messages of the history, and returns a delta of one message.
C25_OneCallWithObjectiveAndWindow ==
    llm.status = "returned"
        => /\ Len(llm.calls) = 1
           /\ llm.calls[1] = <<SystemMessage(llm.objective)>> \o Window(llm.messages)
           /\ OneMessageDelta(llm.delta)

\* C25 (amended): one completion call and a delta of one message; the
\* context is the window of the history, preceded by the objective as system
\* message exactly when the objective is not empty.
C25_OneCallWithWindow ==
    llm.status = "returned"
        => /\ Len(llm.calls) = 1
           /\ llm.objective # "" => llm.calls[1] = <<SystemMessage(llm.objective)>> \o Window(llm.messages)
           /\ llm.objective = "" => llm.calls[1] = Window(llm.messages)
           /\ OneMessageDelta(llm.delta)

C25_Witness ==
    /\ llm.status = "returned"
    /\ llm.objective # ""
    /\ Len(llm.messages) > MAX_MESSAGES
    /\ Len(llm.calls[1]) = MAX_MESSAGES + 1

(***************************************************************************)
(* Properties of the blueprint field                                       *)
(***************************************************************************)
\* The blueprint field of the shared state: the field the schema declares.
Blueprint(state) == state.agent_bleuprint

\* C26: when update_blueprint has completed, the blueprint field of the state
\* is the text it returned; an execution of step_planner reads exactly the
\* blueprint field of the state it is given; and no other node changes the
\* blueprint field.
C26_BlueprintFollowsRevise ==
    /\ (lit.status = "returned" /\ lit.node = "update_blueprint") => Blueprint(lit.result) = lit.text
    /\ (lit.status # "ready" /\ lit.node = "step_planner") => lit.read = Blueprint(lit.state)
    /\ (lit.status # "ready" /\ lit.node # "update_blueprint") => Blueprint(lit.result) = Blueprint(lit.state)

(***************************************************************************)
(* Properties of overlapping agent-generation calls                        *)
(***************************************************************************)
\* C29: the agent_id in the "complete" event of a generation stream is the id
\* of the agent that this stream created.
C29_ReportsOwnAgentId ==
    \A r \in Requests : gen.pc[r] = "done" => gen.reported[r] = gen.id[r]

====
